---- MODULE Spec2Model ----
(***************************************************************************)
(* Model of script.js: the status line (setStatus and its auto-hide        *)
(* timers), downloadFile, the image size reducer compressImageToTarget     *)
(* and the document reducer compressPDFByTargetRendering with its page     *)
(* pipeline performPdfRenderingCompression on the shared 'pdfCanvas'.      *)
(***************************************************************************)
EXTENDS Integers, Sequences, FiniteSets, TLC

(***************************************************************************)
(* Bounds of the model (not program constants).                            *)
(***************************************************************************)
\* cap on the number of encodes recorded in one image run
MaxEncodes == 21
\* largest number of pages of an input document
MaxPages == 2

(***************************************************************************)
(* IEEE-754 doubles near the multiples of 1/20.                            *)
(* A quality is a record [n, e] standing for the real n/20 + e*u with      *)
(* u = 1/(5 * 2^57); 1/20 = 2^55 * u.  The doubles of a binade are the     *)
(* multiples of its spacing, 80u in [1/2,1), 40u in [1/4,1/2), ...         *)
(***************************************************************************)
RECURSIVE PowMod(_, _, _)
PowMod(b, x, m) == IF x = 0 THEN 1 % m ELSE (b * PowMod(b, x - 1, m)) % m

\* spacing, in units of u, of the doubles around n/20 + e*u (0: exact)
Ulp(n, e) ==
    IF n > 10 \/ (n = 10 /\ e >= 0) THEN 80
    ELSE IF n > 5 \/ (n = 5 /\ e >= 0) THEN 40
    ELSE IF n >= 3 THEN 20
    ELSE IF n = 2 THEN 10
    ELSE IF n = 1 THEN 5
    ELSE 0

\* round-to-nearest, ties-to-even, of the real n/20 + e*u
RoundToDouble(n, e) ==
    LET g == Ulp(n, e) IN
    IF g = 0 THEN [n |-> n, e |-> e]
    ELSE LET r2  == (n * PowMod(2, 55, 2 * g) + e) % (2 * g)
             r   == r2 % g
             odd == r2 >= g
         IN  IF 2 * r < g THEN [n |-> n, e |-> e - r]
             ELSE IF 2 * r > g THEN [n |-> n, e |-> e + g - r]
             ELSE IF odd THEN [n |-> n, e |-> e + g - r]
             ELSE [n |-> n, e |-> e - r]

\* the double denoted by the decimal literal n/20 (0.95 is Lit(19))
Lit(n) == RoundToDouble(n, 0)

\* a - b in double arithmetic
FSub(a, b) == RoundToDouble(a.n - b.n, a.e - b.e)

\* a >= b on doubles
FGeq(a, b) == a.n > b.n \/ (a.n = b.n /\ a.e >= b.e)

\* Math.max(a, b)
FMax(a, b) == IF FGeq(a, b) THEN a ELSE b

\* Math.round(quality) * 100: the rounding applied before the scaling
Percent_RoundFirst(q) == 100 * (IF q.n >= 10 THEN 1 ELSE 0)

\* Math.round(quality * 100): 5n + 100*e*u with |100*e*u| < 1/2
Percent(q) == 5 * q.n

(***************************************************************************)
(* Program constants.                                                      *)
(***************************************************************************)
\* let quality = 0.95
StartQuality == Lit(19)
\* the step and the floor, both the literal 0.05
QualityStep == Lit(1)
\* minimum target in KB
MinTargetKB == 10
\* length of the prefix "data:image/jpeg;base64,"
DataUrlPrefixLen == 23
\* length of the data URL "data:," of a canvas that could not be encoded
EmptyDataUrlLen == 6
\* const qualities = [0.9, 0.7, 0.5, 0.3]
qualities == <<Lit(18), Lit(14), Lit(10), Lit(6)>>
\* page.getViewport({ scale: 2.0 })
RenderScale == 2

(***************************************************************************)
(* Inputs.                                                                 *)
(***************************************************************************)
Digits == <<"0", "1", "2", "3", "4", "5", "6", "7", "8", "9">>
IsDigit(c) == \E d \in 1..10 : Digits[d] = c
DigitVal(c) == (CHOOSE d \in 1..10 : Digits[d] = c) - 1

\* values of the target fields: empty, junk, 0, 9, 10, 12, "12x"
RawTargets ==
    { <<>>, <<"x">>, <<"0">>, <<"9">>, <<"1", "0">>, <<"1", "2">>,
      <<"1", "2", "x">> }

\* byte sizes an encode of the image can have
ImgSizes == { 8046, 8047, 10240, 13000 }

NaN == [nan |-> TRUE, val |-> 0]
Num(v) == [nan |-> FALSE, val |-> v]

RECURSIVE DecimalValue(_)
DecimalValue(s) ==
    IF s = <<>> THEN 0
    ELSE 10 * DecimalValue(SubSeq(s, 1, Len(s) - 1)) + DigitVal(s[Len(s)])

\* Number(value): the empty string is 0, a digit string its value, else NaN
Number(s) ==
    IF \A i \in 1..Len(s) : IsDigit(s[i]) THEN Num(DecimalValue(s)) ELSE NaN

RECURSIVE DigitPrefix(_)
DigitPrefix(s) ==
    IF s = <<>> \/ ~IsDigit(s[1]) THEN <<>>
    ELSE <<s[1]>> \o DigitPrefix(Tail(s))

\* parseInt(value): the longest digit prefix, NaN when it is empty
ParseInt(s) ==
    IF DigitPrefix(s) = <<>> THEN NaN ELSE Num(DecimalValue(DigitPrefix(s)))

\* variant: the minimum is not enforced
InvalidTarget_NoMinimum(t) == t.nan \/ t.val = 0

\* !targetKB || targetKB < 10
InvalidTarget(t) == t.nan \/ t.val = 0 \/ t.val < MinTargetKB

(***************************************************************************)
(* Sizes and encodings.                                                    *)
(***************************************************************************)
\* Math.round(length / 1024)
RoundKB(len) == (len + 512) \div 1024

\* canvas.toDataURL("image/jpeg", q) of a JPEG of `bytes` bytes: the prefix
\* and the base64 text with its padding; bytes = 0 is the canvas that
\* cannot be encoded, which yields "data:,"
ToDataURL(bytes, q) ==
    IF bytes = 0
    THEN [valid |-> FALSE, len |-> EmptyDataUrlLen, pad |-> 0, q |-> q]
    ELSE [valid |-> TRUE,
          len |-> DataUrlPrefixLen + 4 * ((bytes + 2) \div 3),
          pad |-> (3 - (bytes % 3)) % 3, q |-> q]

\* variant: arr[0].match(/:(.*?);/)?.[1], a missing mime type is tolerated
MimeMissing_Tolerated(url) == FALSE

\* arr[0].match(/:(.*?);/)[1] throws: "data:," has no mime type
MimeMissing(url) == ~url.valid

\* dataURLToBlob: atob of the text after the comma; the size of the blob
DataURLToBlob(url) ==
    [size |-> IF url.valid
              THEN 3 * ((url.len - DataUrlPrefixLen) \div 4) - url.pad
              ELSE 0,
     q |-> url.q]

(***************************************************************************)
(* State.                                                                  *)
(***************************************************************************)
VARIABLES
    statusEl,        \* the status line: [text, cls]
    timers,          \* number of pending auto-hide timeouts
    statusLog,       \* the setStatus calls of the latest step that made any
    downloads,       \* files handed to the browser by downloadFile, in order
    imgPc,           \* position of the compressImageToTarget run
    imgTargetKB,     \* its targetKB
    quality,         \* its quality
    result,          \* its result: <<>> while undefined, else <<data URL>>
    tried,           \* qualities passed to canvas.toDataURL by the run
    imgDraws,        \* number of ctx.drawImage calls of the run
    imgReport,       \* which final report the run made: none, met, notMet
    canvas,          \* the element 'pdfCanvas': [w, h, drawn]
    pc,              \* per document run: the await it is suspended at
    targetKB,        \* per document run: its targetKB
    file,            \* per document run: its input file, [id, numPages]
    mode,            \* per document run: "target" or "quality" (the handler)
    cand,            \* per document run: index in qualities of the candidate
    pdfQuality,      \* per document run: quality of the build in progress
    pageNo,          \* per document run: i of the page loop
    pdfDocLib,       \* per document run: pages of the document being built
    dataUrl,         \* per document run: the encoded page in flight
    compressedBytes, \* per document run: <<>> or <<the last finished build>>
    report,          \* per document run: none, met, notMet
    renders,         \* per document run: page -> number of page.render calls
    attempts,        \* per document run: candidates whose build was started
    built            \* per document run: the finished builds, [cand, size]

uiVars  == <<statusEl, timers, statusLog, downloads>>
imgVars == <<imgPc, imgTargetKB, quality, result, tried, imgDraws, imgReport>>
pdfVars == <<canvas, pc, targetKB, file, mode, cand, pdfQuality, pageNo,
             pdfDocLib, dataUrl, compressedBytes, report, renders, attempts,
             built>>

(***************************************************************************)
(* The status line and downloadFile.  A ui value is [el, timers, dl, log], *)
(* log being the setStatus calls made so far in the step.                  *)
(***************************************************************************)
Msg(kind, pct, kb) == [kind |-> kind, pct |-> pct, kb |-> kb]

UI == [el |-> statusEl, timers |-> timers, dl |-> downloads, log |-> <<>>]

\* setStatus(message, type)
SetStatus(ui, message, type) ==
    IF type = "hidden"
    THEN [ui EXCEPT !.el = [text |-> message, cls |-> "hidden"],
                    !.log = Append(@, [text |-> message, cls |-> "hidden"])]
    ELSE [ui EXCEPT !.el = [text |-> message, cls |-> type],
                    !.log = Append(@, [text |-> message, cls |-> type]),
                    !.timers = IF type \in {"success", "error"}
                               THEN @ + 1 ELSE @]

\* downloadFile(data, filename)
DownloadFile(ui, data, filename, by) ==
    SetStatus([ui EXCEPT !.dl = Append(@, [filename |-> filename,
                                            data |-> data, by |-> by])],
              Msg("downloaded", 0, 0), "success")

SetUI(ui) ==
    /\ statusEl' = ui.el
    /\ timers' = ui.timers
    /\ statusLog' = ui.log
    /\ downloads' = ui.dl

(***************************************************************************)
(* compressImageToTarget.                                                  *)
(***************************************************************************)
\* the tag of the image run in the download log (document runs are 1, 2)
ImgRun == 0

\* if (sizeKB <= targetKB) break
ImgAccepts(sizeKB, t) == sizeKB <= t.val

\* quality = Math.max(0.05, quality - 0.05)
NextQuality(q) == FMax(QualityStep, FSub(q, QualityStep))

\* while (quality >= 0.05)
LoopCondition(q) == FGeq(q, QualityStep)

\* the synchronous part of the run occupies the script thread
ImgBusy == imgPc \in {"loop", "final"}

\* the click handler up to the first await
ImgStart(hasFile, raw) ==
    /\ imgPc = "idle"
    /\ imgTargetKB' = Number(raw)
    /\ IF ~hasFile
       THEN /\ SetUI(SetStatus(UI, Msg("imgNoFile", 0, 0), "error"))
            /\ imgPc' = "rejected"
       ELSE IF InvalidTarget(Number(raw))
       THEN /\ SetUI(SetStatus(UI, Msg("imgBadTarget", 0, 0), "error"))
            /\ imgPc' = "rejected"
       ELSE /\ SetUI(SetStatus(UI, Msg("imgStart", 0, Number(raw).val),
                               "processing"))
            /\ imgPc' = "read"
    /\ UNCHANGED <<quality, result, tried, imgDraws, imgReport>>
    /\ UNCHANGED pdfVars

\* readFileAsDataURL resolves (the reader has no error handler)
ImgReadDone ==
    /\ imgPc = "read"
    /\ imgPc' = "load"
    /\ UNCHANGED <<imgTargetKB, quality, result, tried, imgDraws, imgReport>>
    /\ UNCHANGED uiVars
    /\ UNCHANGED pdfVars

\* img.onerror: the promise rejects and the catch block reports
ImgLoadError ==
    /\ imgPc = "load"
    /\ imgPc' = "failed"
    /\ SetUI(SetStatus(UI, Msg("imgFailed", 0, 0), "error"))
    /\ UNCHANGED <<imgTargetKB, quality, result, tried, imgDraws, imgReport>>
    /\ UNCHANGED pdfVars

\* img.onload: the canvas is created and the image drawn on it, once
ImgLoaded ==
    /\ imgPc = "load"
    /\ imgDraws' = imgDraws + 1
    /\ imgPc' = IF LoopCondition(quality) THEN "loop" ELSE "final"
    /\ UNCHANGED <<imgTargetKB, quality, result, tried, imgReport>>
    /\ UNCHANGED uiVars
    /\ UNCHANGED pdfVars

\* one iteration of the while loop; the encoder is deterministic, so a
\* quality that is encoded again yields the same data URL
ImgEncodeStep(bytes) ==
    /\ imgPc = "loop"
    /\ Len(tried) < MaxEncodes
    /\ LET url    == ToDataURL(bytes, quality)
           sizeKB == RoundKB(url.len)
       IN  /\ (result # <<>> /\ result[1].q = quality) => url = result[1]
           /\ result' = <<url>>
           /\ tried' = Append(tried, quality)
           /\ SetUI(SetStatus(UI, Msg("imgStep", Percent(quality), sizeKB),
                              "processing"))
           /\ IF ImgAccepts(sizeKB, imgTargetKB)
              THEN /\ quality' = quality
                   /\ imgPc' = "final"
              ELSE /\ quality' = NextQuality(quality)
                   /\ imgPc' = IF LoopCondition(NextQuality(quality))
                               THEN "loop" ELSE "final"
    /\ UNCHANGED <<imgTargetKB, imgDraws, imgReport>>
    /\ UNCHANGED pdfVars

\* the code after the loop: the final report, then the download
ImgFinish ==
    /\ imgPc = "final"
    /\ LET finalSizeKB == RoundKB(result[1].len)
           notMet == finalSizeKB > imgTargetKB.val
           ui1 == IF notMet
                  THEN SetStatus(UI, Msg("imgNotMet", 0, finalSizeKB), "error")
                  ELSE SetStatus(UI, Msg("imgMet", Percent(quality),
                                         finalSizeKB), "success")
       IN  /\ imgReport' = IF notMet THEN "notMet" ELSE "met"
           /\ IF ~MimeMissing(result[1])
              THEN /\ SetUI(DownloadFile(ui1, DataURLToBlob(result[1]),
                                         "CompressedImage.jpg", ImgRun))
                   /\ imgPc' = "done"
              ELSE \* dataURLToBlob throws on "data:,": the catch block
                   /\ SetUI(SetStatus(ui1, Msg("imgFailed", 0, 0), "error"))
                   /\ imgPc' = "failed"
    /\ UNCHANGED <<imgTargetKB, quality, result, tried, imgDraws>>
    /\ UNCHANGED pdfVars

\* setTimeout(() => setStatus('', 'hidden'), 8000) fires
TimerFires ==
    /\ timers > 0
    /\ ~ImgBusy
    /\ SetUI(SetStatus([UI EXCEPT !.timers = @ - 1], Msg("", 0, 0), "hidden"))
    /\ UNCHANGED imgVars
    /\ UNCHANGED pdfVars


(***************************************************************************)
(* compressPDFByTargetRendering and performPdfRenderingCompression.        *)
(***************************************************************************)
\* the document runs that can be in progress together
Runs == {1, 2}

\* byte lengths pdfDocLib.save() can return
PdfSizes == { 10240, 10751, 10752 }

\* size of page p of a file, in PDF units
PageSize(f, p) == [w |-> 100 * f.id + 10 * p, h |-> 200 * f.id + 10 * p]

\* page.getViewport({ scale: 2.0 })
Viewport(f, p) ==
    [w |-> RenderScale * PageSize(f, p).w, h |-> RenderScale * PageSize(f, p).h]

\* variant: a size equal to the target is rejected
PdfAccepts_Strict(sizeKB, t) == sizeKB < t.val

\* if (sizeKB <= targetKB)
PdfAccepts(sizeKB, t) == sizeKB <= t.val

\* awaits of a run at which the awaited promise can reject
Awaiting ==
    {"arrayBuffer", "create", "getDocument", "getPage", "render", "fetch",
     "embedJpg", "save"}

\* the handler has returned: its locals no longer exist
DropLocals(r) ==
    /\ pageNo' = [pageNo EXCEPT ![r] = 1]
    /\ pdfDocLib' = [pdfDocLib EXCEPT ![r] = <<>>]
    /\ dataUrl' = [dataUrl EXCEPT ![r] = <<>>]
    /\ compressedBytes' = [compressedBytes EXCEPT ![r] = <<>>]

\* the loop without its await: candidate c + 1 is started while the build of
\* candidate c is pending
BeginBuild_NoAwait(r, c, ui) ==
    /\ pageNo' = [pageNo EXCEPT ![r] = 1]
    /\ pdfDocLib' = [pdfDocLib EXCEPT ![r] = <<>>]
    /\ dataUrl' = [dataUrl EXCEPT ![r] = <<>>]
    /\ SetUI(SetStatus(ui, Msg("pdfAttempt", Percent(qualities[c]), 0),
                       "processing"))
    /\ cand' = [cand EXCEPT ![r] = c]
    /\ pdfQuality' = [pdfQuality EXCEPT ![r] = qualities[c]]
    /\ attempts' = [attempts EXCEPT ![r] = Append(Append(@, c), c + 1)]
    /\ pc' = [pc EXCEPT ![r] = "arrayBuffer"]

\* the call performPdfRenderingCompression(file, quality) up to its first
\* await, preceded by the status of the candidate; the locals of an earlier
\* call no longer exist
BeginBuild(r, c, ui) ==
    /\ pageNo' = [pageNo EXCEPT ![r] = 1]
    /\ pdfDocLib' = [pdfDocLib EXCEPT ![r] = <<>>]
    /\ dataUrl' = [dataUrl EXCEPT ![r] = <<>>]
    /\ SetUI(SetStatus(ui, Msg("pdfAttempt", Percent(qualities[c]), 0),
                       "processing"))
    /\ cand' = [cand EXCEPT ![r] = c]
    /\ pdfQuality' = [pdfQuality EXCEPT ![r] = qualities[c]]
    /\ attempts' = [attempts EXCEPT ![r] = Append(@, c)]
    /\ pc' = [pc EXCEPT ![r] = "arrayBuffer"]

\* the click handler up to the first await
PdfStart(r, hasFile, raw, numPages) ==
    /\ pc[r] = "idle"
    /\ ~ImgBusy
    /\ targetKB' = [targetKB EXCEPT ![r] = ParseInt(raw)]
    /\ mode' = [mode EXCEPT ![r] = "target"]
    /\ IF ~hasFile
       THEN /\ SetUI(SetStatus(UI, Msg("pdfNoFile", 0, 0), "error"))
            /\ pc' = [pc EXCEPT ![r] = "rejected"]
            /\ UNCHANGED <<file, cand, pdfQuality, attempts, pageNo, pdfDocLib,
                           dataUrl>>
       ELSE IF InvalidTarget(ParseInt(raw))
       THEN /\ SetUI(SetStatus(UI, Msg("pdfBadTarget", 0, 0), "error"))
            /\ pc' = [pc EXCEPT ![r] = "rejected"]
            /\ UNCHANGED <<file, cand, pdfQuality, attempts, pageNo, pdfDocLib,
                           dataUrl>>
       ELSE /\ file' = [file EXCEPT ![r] = [id |-> r, numPages |-> numPages]]
            /\ BeginBuild(r, 1, SetStatus(UI, Msg("pdfStart", 0,
                                                 ParseInt(raw).val),
                                          "processing"))
    /\ UNCHANGED <<canvas, compressedBytes, report, renders, built>>
    /\ UNCHANGED imgVars

\* file.arrayBuffer() resolves; PDFLib.PDFDocument.create() is awaited
PdfArrayBufferDone(r) ==
    /\ pc[r] = "arrayBuffer"
    /\ ~ImgBusy
    /\ pc' = [pc EXCEPT ![r] = "create"]
    /\ UNCHANGED <<canvas, targetKB, file, mode, cand, pdfQuality, pageNo,
                   pdfDocLib, dataUrl, compressedBytes, report, renders,
                   attempts, built>>
    /\ UNCHANGED uiVars
    /\ UNCHANGED imgVars

\* the new empty document exists; getDocument(...).promise is awaited
PdfCreateDone(r) ==
    /\ pc[r] = "create"
    /\ ~ImgBusy
    /\ pdfDocLib' = [pdfDocLib EXCEPT ![r] = <<>>]
    /\ pc' = [pc EXCEPT ![r] = "getDocument"]
    /\ UNCHANGED <<canvas, targetKB, file, mode, cand, pdfQuality, pageNo,
                   dataUrl, compressedBytes, report, renders, attempts, built>>
    /\ UNCHANGED uiVars
    /\ UNCHANGED imgVars

\* the head of the page loop: the status of page i, then pdf.getPage(i)
BeginPage(r, i) ==
    /\ pageNo' = [pageNo EXCEPT ![r] = i]
    /\ SetUI(SetStatus(UI, Msg("pdfPage", Percent(pdfQuality[r]), 0),
                       "processing"))
    /\ pc' = [pc EXCEPT ![r] = "getPage"]

\* the input document is loaded; the page loop starts at i = 1
PdfDocumentLoaded(r) ==
    /\ pc[r] = "getDocument"
    /\ ~ImgBusy
    /\ BeginPage(r, 1)
    /\ UNCHANGED <<canvas, targetKB, file, mode, cand, pdfQuality, pdfDocLib,
                   dataUrl, compressedBytes, report, renders, attempts, built>>
    /\ UNCHANGED imgVars

\* pdf.getPage(i) resolves: the shared canvas is resized to the viewport,
\* which clears it, and page.render is started on it
PdfGetPageDone(r) ==
    /\ pc[r] = "getPage"
    /\ ~ImgBusy
    /\ canvas' = [w |-> Viewport(file[r], pageNo[r]).w,
                  h |-> Viewport(file[r], pageNo[r]).h, drawn |-> {}]
    /\ renders' = [renders EXCEPT ![r][pageNo[r]] = @ + 1]
    /\ pc' = [pc EXCEPT ![r] = "render"]
    /\ UNCHANGED <<targetKB, file, mode, cand, pdfQuality, pageNo, pdfDocLib,
                   dataUrl, compressedBytes, report, attempts, built>>
    /\ UNCHANGED uiVars
    /\ UNCHANGED imgVars

\* page.render(...).promise resolves: the page is drawn on whatever the
\* canvas is by now, canvas.toDataURL encodes the canvas, fetch is awaited
PdfRenderDone(r) ==
    /\ pc[r] = "render"
    /\ ~ImgBusy
    /\ canvas' = [canvas EXCEPT !.drawn = @ \cup {<<file[r].id, pageNo[r]>>}]
    /\ dataUrl' = [dataUrl EXCEPT ![r] =
                     <<[w |-> canvas.w, h |-> canvas.h,
                        drawn |-> canvas.drawn \cup {<<file[r].id, pageNo[r]>>},
                        q |-> pdfQuality[r]]>>]
    /\ pc' = [pc EXCEPT ![r] = "fetch"]
    /\ UNCHANGED <<targetKB, file, mode, cand, pdfQuality, pageNo, pdfDocLib,
                   compressedBytes, report, renders, attempts, built>>
    /\ UNCHANGED uiVars
    /\ UNCHANGED imgVars

\* fetch(dataUrl) gives the JPEG bytes; pdfDocLib.embedJpg is awaited
PdfFetchDone(r) ==
    /\ pc[r] = "fetch"
    /\ ~ImgBusy
    /\ pc' = [pc EXCEPT ![r] = "embedJpg"]
    /\ UNCHANGED <<canvas, targetKB, file, mode, cand, pdfQuality, pageNo,
                   pdfDocLib, dataUrl, compressedBytes, report, renders,
                   attempts, built>>
    /\ UNCHANGED uiVars
    /\ UNCHANGED imgVars

\* the page added for iteration i: viewport-sized, the image drawn over it
NewPage(f, i, image) ==
    [w |-> Viewport(f, i).w, h |-> Viewport(f, i).h, src |-> i,
     image |-> image,
     at |-> [x |-> 0, y |-> 0, width |-> Viewport(f, i).w,
             height |-> Viewport(f, i).h]]

\* variant: the page index is not advanced
NextPageIndex_Stuck(i) == i

\* for (let i = 1; i <= totalPages; i++): i++
NextPageIndex(i) == i + 1

\* variant: the loop stops one page early
MorePages_OffByOne(f, i) == NextPageIndex(i) < f.numPages

\* for (let i = 1; i <= totalPages; i++): i <= totalPages
MorePages(f, i) == NextPageIndex(i) <= f.numPages

\* embedJpg resolves: addPage and drawImage, then the next page or save()
PdfEmbedDone(r) ==
    /\ pc[r] = "embedJpg"
    /\ ~ImgBusy
    /\ pdfDocLib' = [pdfDocLib EXCEPT ![r] =
                       Append(@, NewPage(file[r], pageNo[r], dataUrl[r][1]))]
    /\ dataUrl' = [dataUrl EXCEPT ![r] = <<>>]
    /\ IF MorePages(file[r], pageNo[r])
       THEN BeginPage(r, NextPageIndex(pageNo[r]))
       ELSE /\ pc' = [pc EXCEPT ![r] = "save"]
            /\ UNCHANGED pageNo
            /\ UNCHANGED uiVars
    /\ UNCHANGED <<canvas, targetKB, file, mode, cand, pdfQuality,
                   compressedBytes, report, renders, attempts, built>>
    /\ UNCHANGED imgVars

\* variant: the last candidate is never tried
MoreCandidates_StopEarly(c) == c < Len(qualities) - 1

\* for (const quality of qualities)
MoreCandidates(c) == c < Len(qualities)

\* pdfDocLib.save() resolves with `len` bytes: the size is measured and the
\* candidate accepted, or rejected in favour of the next one, or delivered
\* as the last one
PdfSaveDone(r, len) ==
    /\ pc[r] = "save"
    /\ mode[r] = "target"
    /\ ~ImgBusy
    /\ LET bytes  == [size |-> len, q |-> pdfQuality[r]]
           sizeKB == RoundKB(len)
           pct    == Percent(pdfQuality[r])
       IN  IF PdfAccepts(sizeKB, targetKB[r])
           THEN /\ SetUI(DownloadFile(
                           SetStatus(UI, Msg("pdfMet", pct, sizeKB), "success"),
                           bytes, "compressed_target_success.pdf", r))
                /\ report' = [report EXCEPT ![r] = "met"]
                /\ pc' = [pc EXCEPT ![r] = "done"]
                /\ DropLocals(r)
                /\ UNCHANGED <<cand, pdfQuality, attempts>>
           ELSE IF MoreCandidates(cand[r])
           THEN /\ BeginBuild(r, cand[r] + 1,
                              SetStatus(UI, Msg("pdfAbove", pct, sizeKB),
                                        "processing"))
                /\ compressedBytes' = [compressedBytes EXCEPT ![r] = <<bytes>>]
                /\ UNCHANGED report
           ELSE /\ SetUI(DownloadFile(
                           SetStatus(
                             SetStatus(UI, Msg("pdfAbove", pct, sizeKB),
                                       "processing"),
                             Msg("pdfNotMet", 30, sizeKB), "error"),
                           bytes, "compressed_target_attempt.pdf", r))
                /\ report' = [report EXCEPT ![r] = "notMet"]
                /\ pc' = [pc EXCEPT ![r] = "done"]
                /\ DropLocals(r)
                /\ UNCHANGED <<cand, pdfQuality, attempts>>
    /\ built' = [built EXCEPT ![r] = Append(@, [cand |-> cand[r],
                                                size |-> len])]
    /\ UNCHANGED <<canvas, targetKB, file, mode, renders>>
    /\ UNCHANGED imgVars

(***************************************************************************)
(* compressPDFByRenderingQuality.                                          *)
(***************************************************************************)
\* values of the quality field
RawQualities == { <<"0", ".", "9">>, <<"0", ".", "5">> }

\* parseFloat(value) of a value of the form 0.d
ParseFloat(s) == Lit(2 * DigitVal(s[3]))

\* the click handler up to the first await
QualityStart(r, hasFile, raw, numPages) ==
    /\ pc[r] = "idle"
    /\ ~ImgBusy
    /\ mode' = [mode EXCEPT ![r] = "quality"]
    /\ IF ~hasFile
       THEN /\ SetUI(SetStatus(UI, Msg("pdfNoFile", 0, 0), "error"))
            /\ pc' = [pc EXCEPT ![r] = "rejected"]
            /\ UNCHANGED <<file, pdfQuality>>
       ELSE /\ SetUI(SetStatus(UI, Msg("qualityStart",
                                       Percent(ParseFloat(raw)), 0),
                               "processing"))
            /\ file' = [file EXCEPT ![r] = [id |-> r, numPages |-> numPages]]
            /\ pdfQuality' = [pdfQuality EXCEPT ![r] = ParseFloat(raw)]
            /\ pc' = [pc EXCEPT ![r] = "arrayBuffer"]
    /\ UNCHANGED <<canvas, targetKB, cand, pageNo, pdfDocLib, dataUrl,
                   compressedBytes, report, renders, attempts, built>>
    /\ UNCHANGED imgVars

\* pdfDocLib.save() resolves: the file is downloaded, then the final status
QualitySaveDone(r, len) ==
    /\ pc[r] = "save"
    /\ mode[r] = "quality"
    /\ ~ImgBusy
    /\ LET bytes == [size |-> len, q |-> pdfQuality[r]]
       IN  SetUI(SetStatus(
                   DownloadFile(UI, bytes,
                                "compressed_rendered_quality.pdf", r),
                   Msg("qualityDone", Percent(pdfQuality[r]), RoundKB(len)),
                   "success"))
    /\ pc' = [pc EXCEPT ![r] = "done"]
    /\ DropLocals(r)
    /\ UNCHANGED <<canvas, targetKB, file, mode, cand, pdfQuality, report,
                   renders, attempts, built>>
    /\ UNCHANGED imgVars

\* variant: the catch block falls back to the last finished build
PdfFails_Fallback(r) ==
    /\ pc[r] \in Awaiting
    /\ ~ImgBusy
    /\ SetUI(IF compressedBytes[r] # <<>>
             THEN DownloadFile(SetStatus(UI, Msg("pdfFailed", 0, 0), "error"),
                               compressedBytes[r][1],
                               "compressed_target_attempt.pdf", r)
             ELSE SetStatus(UI, Msg("pdfFailed", 0, 0), "error"))
    /\ pc' = [pc EXCEPT ![r] = "failed"]
    /\ DropLocals(r)
    /\ UNCHANGED <<canvas, targetKB, file, mode, cand, pdfQuality, report,
                   renders, attempts, built>>
    /\ UNCHANGED imgVars

\* an awaited promise rejects: the catch block of the run reports it
PdfFails(r) ==
    /\ pc[r] \in Awaiting
    /\ ~ImgBusy
    /\ SetUI(SetStatus(UI, Msg("pdfFailed", 0, 0), "error"))
    /\ pc' = [pc EXCEPT ![r] = "failed"]
    /\ DropLocals(r)
    /\ UNCHANGED <<canvas, targetKB, file, mode, cand, pdfQuality, report,
                   renders, attempts, built>>
    /\ UNCHANGED imgVars

(***************************************************************************)
(* Specifications.                                                         *)
(***************************************************************************)
vars == <<statusEl, timers, statusLog, downloads, imgPc, imgTargetKB, quality,
          result, tried, imgDraws, imgReport, canvas, pc, targetKB, file, mode, cand,
          pdfQuality, pageNo, pdfDocLib, dataUrl, compressedBytes, report,
          renders, attempts, built>>

Init ==
    /\ statusEl = [text |-> Msg("", 0, 0), cls |-> "hidden"]
    /\ timers = 0
    /\ statusLog = <<>>
    /\ downloads = <<>>
    /\ imgPc = "idle"
    /\ imgTargetKB = NaN
    /\ quality = StartQuality
    /\ result = <<>>
    /\ tried = <<>>
    /\ imgDraws = 0
    /\ imgReport = "none"
    /\ canvas = [w |-> 300, h |-> 150, drawn |-> {}]
    /\ pc = [r \in Runs |-> "idle"]
    /\ targetKB = [r \in Runs |-> NaN]
    /\ file = [r \in Runs |-> [id |-> r, numPages |-> 1]]
    /\ mode = [r \in Runs |-> "target"]
    /\ cand = [r \in Runs |-> 1]
    /\ pdfQuality = [r \in Runs |-> qualities[1]]
    /\ pageNo = [r \in Runs |-> 1]
    /\ pdfDocLib = [r \in Runs |-> <<>>]
    /\ dataUrl = [r \in Runs |-> <<>>]
    /\ compressedBytes = [r \in Runs |-> <<>>]
    /\ report = [r \in Runs |-> "none"]
    /\ renders = [r \in Runs |-> [p \in 1..MaxPages |-> 0]]
    /\ attempts = [r \in Runs |-> <<>>]
    /\ built = [r \in Runs |-> <<>>]

\* one image run
NextImage ==
    \/ \E hasFile \in BOOLEAN, raw \in RawTargets : ImgStart(hasFile, raw)
    \/ ImgReadDone
    \/ ImgLoadError
    \/ ImgLoaded
    \/ \E bytes \in ImgSizes \cup {0} : ImgEncodeStep(bytes)
    \/ ImgFinish
    \/ TimerFires

SpecImage == Init /\ [][NextImage]_vars

\* one image run and one document run, interleaved at their awaits
Next ==
    \/ \E hasFile \in BOOLEAN, raw \in RawTargets : ImgStart(hasFile, raw)
    \/ ImgReadDone
    \/ ImgLoadError
    \/ ImgLoaded
    \/ \E bytes \in ImgSizes \cup {0} : ImgEncodeStep(bytes)
    \/ ImgFinish
    \/ \E hasFile \in BOOLEAN, raw \in RawTargets, n \in 1..MaxPages :
          PdfStart(1, hasFile, raw, n)
    \/ PdfArrayBufferDone(1)
    \/ PdfCreateDone(1)
    \/ PdfDocumentLoaded(1)
    \/ PdfGetPageDone(1)
    \/ PdfRenderDone(1)
    \/ PdfFetchDone(1)
    \/ PdfEmbedDone(1)
    \/ \E len \in PdfSizes : PdfSaveDone(1, len)
    \/ PdfFails(1)
    \/ TimerFires

Spec == Init /\ [][Next]_vars

\* a target run on a document of up to MaxPages pages and a fixed-quality
\* run on a one-page document, interleaved at their awaits (the status
\* line's timers are left pending)
NextPdf ==
    \/ \E hasFile \in BOOLEAN, raw \in RawTargets, n \in 1..MaxPages :
          PdfStart(1, hasFile, raw, n)
    \/ \E hasFile \in BOOLEAN, raw \in RawQualities :
          QualityStart(2, hasFile, raw, 1)
    \/ \E r \in Runs : PdfArrayBufferDone(r)
    \/ \E r \in Runs : PdfCreateDone(r)
    \/ \E r \in Runs : PdfDocumentLoaded(r)
    \/ \E r \in Runs : PdfGetPageDone(r)
    \/ \E r \in Runs : PdfRenderDone(r)
    \/ \E r \in Runs : PdfFetchDone(r)
    \/ \E r \in Runs : PdfEmbedDone(r)
    \/ \E len \in PdfSizes : PdfSaveDone(1, len)
    \/ \E len \in PdfSizes : QualitySaveDone(2, len)
    \/ \E r \in Runs : PdfFails(r)

SpecPdf == Init /\ [][NextPdf]_vars

(***************************************************************************)
(* Properties.                                                             *)
(***************************************************************************)
\* the files a run has handed to downloadFile
Delivered(by) == SelectSeq(downloads, LAMBDA d : d.by = by)

\* the measured size of `size` bytes, in KB, is within the target t
Fits(size, t) == (size + 512) \div 1024 <= t.val

\* C1: when the encode at the floor quality 0.05 is still larger than the
\* target, the search stops after that attempt: the run goes on to its
\* final report, and when it has finished it has delivered the non-empty
\* result encoded at 0.05 and reported target-not-met.
C1_FloorAttemptEndsSearch ==
    ( /\ imgPc \in {"loop", "final", "done"}
      /\ result # <<>>
      /\ result[1].valid
      /\ result[1].q = Lit(1)
      /\ DataURLToBlob(result[1]).size > imgTargetKB.val * 1024 )
    => /\ imgPc \in {"final", "done"}
       /\ imgPc = "done" =>
            /\ imgReport = "notMet"
            /\ Len(Delivered(ImgRun)) = 1
            /\ Delivered(ImgRun)[1].data.q = Lit(1)
            /\ Delivered(ImgRun)[1].data.size > 0

\* C2: the qualities passed to the encoder in one run start at 0.95, each
\* next one is one step of 0.05 below the previous one, none is below 0.05
\* and none is encoded twice.
C2_StrictlyDescending ==
    /\ tried # <<>> => tried[1] = Lit(19)
    /\ \A i \in 1..(Len(tried) - 1) : tried[i + 1].n = tried[i].n - 1
    /\ \A i \in 1..Len(tried) : FGeq(tried[i], Lit(1))
    /\ \A i, j \in 1..Len(tried) : i # j => tried[i] # tried[j]

\* C5: once a quality has encoded to a size of at most targetKB * 1024
\* bytes the search is over and the run reports target met; and whenever
\* target met is reported, the delivered image has at most targetKB * 1024
\* bytes.
C5_MetWhenAchievable ==
    /\ ( /\ imgPc \in {"loop", "final", "done"}
         /\ result # <<>>
         /\ result[1].valid
         /\ DataURLToBlob(result[1]).size <= imgTargetKB.val * 1024 )
       => /\ imgPc \in {"final", "done"}
          /\ imgPc = "done" => imgReport = "met"
    /\ (imgPc = "done" /\ imgReport = "met")
       => \A i \in 1..Len(Delivered(ImgRun)) :
             Delivered(ImgRun)[i].data.size <= imgTargetKB.val * 1024

\* C3: the candidates of a target run are built in list order, a finished
\* build whose measured size is above the target is passed over, the first
\* one whose measured size is within the target is the document delivered,
\* and no candidate after it is started.
C3_FirstSuccessWins ==
    \A r \in Runs : mode[r] = "target" =>
      /\ attempts[r] = [j \in 1..Len(attempts[r]) |-> j]
      /\ Len(built[r]) <= Len(attempts[r])
      /\ \A j \in 1..Len(built[r]) : built[r][j].cand = j
      /\ \A j \in 1..(Len(built[r]) - 1) : ~Fits(built[r][j].size, targetKB[r])
      /\ \A j \in 1..Len(built[r]) : Fits(built[r][j].size, targetKB[r]) =>
            /\ j = Len(built[r])
            /\ Len(attempts[r]) = j
            /\ report[r] = "met"
      /\ report[r] = "met" =>
            /\ pc[r] = "done"
            /\ built[r] # <<>>
            /\ Fits(built[r][Len(built[r])].size, targetKB[r])
            /\ Delivered(r) =
                 << [filename |-> "compressed_target_success.pdf",
                     data |-> [size |-> built[r][Len(built[r])].size,
                               q |-> qualities[Len(built[r])]],
                     by |-> r] >>

C3_Witness ==
    /\ report[1] = "met"
    /\ Len(built[1]) = 2
    /\ Len(Delivered(1)) = 1
    /\ Delivered(1)[1].data.q = Lit(14)

C6_Rejected ==
    /\ (imgPc # "idle" /\ (imgTargetKB.nan \/ imgTargetKB.val < 10))
       => /\ imgPc = "rejected"
          /\ tried = <<>>
          /\ result = <<>>
          /\ imgDraws = 0
          /\ Delivered(ImgRun) = <<>>
    /\ \A r \in Runs :
         (pc[r] # "idle" /\ mode[r] = "target"
            /\ (targetKB[r].nan \/ targetKB[r].val < 10))
         => /\ pc[r] = "rejected"
            /\ attempts[r] = <<>>
            /\ built[r] = <<>>
            /\ pdfDocLib[r] = <<>>
            /\ \A p \in 1..MaxPages : renders[r][p] = 0
            /\ Delivered(r) = <<>>

C6_RejectedWithError ==
    /\ (imgPc = "idle" /\ imgPc' = "rejected")
       => statusEl'.cls = "error"
          /\ statusEl'.text.kind \in {"imgNoFile", "imgBadTarget"}
    /\ \A r \in Runs : (pc[r] = "idle" /\ pc'[r] = "rejected")
       => statusEl'.cls = "error"
          /\ statusEl'.text.kind \in {"pdfNoFile", "pdfBadTarget"}

C6_InvalidTargetNoSearch == [](C6_Rejected) /\ [][C6_RejectedWithError]_vars

C6_Witness ==
    /\ pc[1] = "rejected"
    /\ ~targetKB[1].nan
    /\ targetKB[1].val = 9
    /\ statusEl.text.kind = "pdfBadTarget"
    /\ imgPc = "rejected"
    /\ imgTargetKB.nan

\* C7: when a run lands in its catch block (a render, encode or assembly
\* call failed) it shows an error status, delivers nothing, then or ever,
\* and starts no further candidate, render or build.
C7_NothingDelivered ==
    /\ imgPc = "failed" => Delivered(ImgRun) = <<>>
    /\ \A r \in Runs : pc[r] = "failed" => Delivered(r) = <<>>

C7_ErrorAndStop ==
    /\ (imgPc # "failed" /\ imgPc' = "failed")
       => (statusEl'.cls = "error" /\ downloads' = downloads)
    /\ imgPc = "failed"
       => (imgPc' = "failed" /\ tried' = tried /\ imgDraws' = imgDraws)
    /\ \A r \in Runs :
         /\ (pc[r] # "failed" /\ pc'[r] = "failed")
            => (statusEl'.cls = "error" /\ downloads' = downloads)
         /\ pc[r] = "failed"
            => /\ pc'[r] = "failed"
               /\ attempts'[r] = attempts[r]
               /\ built'[r] = built[r]
               /\ renders'[r] = renders[r]

C7_FailureAbortsRun == [](C7_NothingDelivered) /\ [][C7_ErrorAndStop]_vars

C7_Witness ==
    /\ pc[1] = "failed"
    /\ Len(built[1]) >= 1
    /\ Len(attempts[1]) >= 2
    /\ imgPc = "failed"
    /\ tried # <<>>

\* C8: every page image embedded in a run's document is the encoding of a
\* canvas that holds only that run's drawing of that page and has that
\* page's viewport as its size.
C8_NoInterference ==
    \A r \in Runs : \A i \in 1..Len(pdfDocLib[r]) :
       /\ pdfDocLib[r][i].image.drawn = {<<r, pdfDocLib[r][i].src>>}
       /\ pdfDocLib[r][i].image.w = 2 * PageSize(file[r], i).w
       /\ pdfDocLib[r][i].image.h = 2 * PageSize(file[r], i).h

\* C9: the document built by performPdfRenderingCompression holds, in
\* ascending order, one page per input page: page i has the size of input
\* page i at scale 2, is covered in full by one image, and that image is
\* the encoding, at the run's quality, of the canvas on which input page i
\* had just been rendered; when save() is called it has exactly N pages.
C9_PagesPreserved ==
    \A r \in Runs :
      /\ Len(pdfDocLib[r]) <= file[r].numPages
      /\ pc[r] = "save" => Len(pdfDocLib[r]) = file[r].numPages
      /\ \A i \in 1..Len(pdfDocLib[r]) :
           /\ pdfDocLib[r][i].src = i
           /\ pdfDocLib[r][i].w = 2 * PageSize(file[r], i).w
           /\ pdfDocLib[r][i].h = 2 * PageSize(file[r], i).h
           /\ pdfDocLib[r][i].at = [x |-> 0, y |-> 0,
                                    width |-> pdfDocLib[r][i].w,
                                    height |-> pdfDocLib[r][i].h]
           /\ <<r, i>> \in pdfDocLib[r][i].image.drawn
           /\ pdfDocLib[r][i].image.q = pdfQuality[r]

C9_Witness ==
    /\ pc[1] = "save"
    /\ file[1].numPages = MaxPages
    /\ Len(pdfDocLib[1]) = MaxPages
    /\ pc[2] = "save"

\* C10 (as claimed): in one run no page is rasterized more than once: the
\* image is drawn once and a target run renders each page once over all
\* the candidates it tries.
C10_RasterizedOncePerRun ==
    /\ imgDraws <= 1
    /\ \A r \in Runs : \A p \in 1..MaxPages : renders[r][p] <= 1

\* C10 (amended): the image is drawn once, before the first encode, and a
\* target run renders each page at most once per candidate build it has
\* started, hence at most four times.
C10_RasterizedOncePerCandidate ==
    /\ imgDraws <= 1
    /\ tried # <<>> => imgDraws = 1
    /\ \A r \in Runs : \A p \in 1..MaxPages :
         /\ renders[r][p] <= Len(attempts[r])
         /\ Len(attempts[r]) <= 4

C10_Witness ==
    /\ renders[1][1] = 4
    /\ imgDraws = 1
    /\ Len(tried) >= 2

\* C11: whenever a target run has reported "target met", the document it
\* delivered is at most targetKB * 1024 bytes long.
C11_MetWithinBudget ==
    \A r \in Runs :
      (mode[r] = "target" /\ report[r] = "met") =>
        \A i \in 1..Len(Delivered(r)) :
          Delivered(r)[i].data.size <= targetKB[r].val * 1024

\* C12: a target search that finishes without meeting the target leaves its
\* target-not-met report on the status line: in the step in which such a run
\* finishes, the status left displayed is the not-met report and not the
\* success message of the delivery.
C12_NotMetLeftDisplayed ==
    /\ (imgPc # "done" /\ imgPc' = "done" /\ imgReport' = "notMet") =>
         (statusEl'.text.kind = "imgNotMet" /\ statusEl'.cls = "error")
    /\ \A r \in Runs :
         (pc[r] # "done" /\ pc'[r] = "done" /\ report'[r] = "notMet") =>
           (statusEl'.text.kind = "pdfNotMet" /\ statusEl'.cls = "error")

C12_NotMetStaysFlagged == [][C12_NotMetLeftDisplayed]_vars

\* the candidate builds of run r that have been started and have neither
\* completed nor failed
InProgress(r) ==
    IF pc[r] \in Awaiting THEN Len(attempts[r]) - Len(built[r]) ELSE 0

C13_OneBuildAtATime ==
    \A r \in Runs : mode[r] = "target" =>
      /\ Len(attempts[r]) - Len(built[r]) \in {0, 1}
      /\ InProgress(r) <= 1
      /\ pc[r] \in Awaiting => InProgress(r) = 1

C13_NextAfterRejection ==
    \A r \in Runs :
      (mode[r] = "target" /\ attempts[r] # <<>> /\ attempts'[r] # attempts[r]) =>
        /\ InProgress(r) = 1
        /\ Len(attempts'[r]) = Len(attempts[r]) + 1
        /\ Len(built'[r]) = Len(attempts[r])
        /\ built'[r][Len(built'[r])].cand = attempts[r][Len(attempts[r])]
        /\ ~Fits(built'[r][Len(built'[r])].size, targetKB[r])

\* C13: within one target run the candidates are built strictly one after
\* another: at most one build of the run is in progress at any time, and
\* the build of the next candidate starts only in a step that has measured
\* the completed build of the previous candidate and rejected it as above
\* the target.
C13_StrictlySequential ==
    [](C13_OneBuildAtATime) /\ [][C13_NextAfterRejection]_vars

C13_Witness ==
    /\ mode[1] = "target"
    /\ pc[1] = "render"
    /\ Len(attempts[1]) = 3
    /\ Len(built[1]) = 2

\* the status message that reports an attempt at quality q measuring len
StepReport(kind, q, len) ==
    [text |-> [kind |-> kind, pct |-> 5 * q.n, kb |-> (len + 512) \div 1024],
     cls  |-> "processing"]

\* each encode of the image search writes the status of its quality and
\* measured size, whatever the accept test then decides
C14_ImgStepReported ==
    tried' # tried =>
      /\ Len(tried') = Len(tried) + 1
      /\ result' # <<>>
      /\ statusLog' = << StepReport("imgStep", tried'[Len(tried')],
                                    result'[1].len) >>
      /\ statusEl' = statusLog'[1]

\* a document run that starts its next candidate has just reported the
\* quality and measured size of the previous one, before the status of the
\* new attempt; an accepted candidate is reported as well
C14_PdfCandidateReported ==
    \A r \in Runs :
      (mode[r] = "target" /\ built'[r] # built[r]) =>
        LET b == built'[r][Len(built'[r])]
        IN  /\ statusLog' # <<>>
            /\ statusLog'[1].text.pct = 5 * qualities[b.cand].n
            /\ statusLog'[1].text.kb = (b.size + 512) \div 1024
            /\ statusLog'[1].text.kind \in {"pdfAbove", "pdfMet"}
            /\ attempts'[r] # attempts[r] =>
                 statusLog' =
                   << StepReport("pdfAbove", qualities[b.cand], b.size),
                      [text |-> [kind |-> "pdfAttempt",
                                 pct |-> 5 * qualities[b.cand + 1].n,
                                 kb |-> 0],
                       cls |-> "processing"] >>

\* between two encodes of the image search the status line shows the
\* report of the encode that was made last
C14_ImgReportShown ==
    (imgPc = "loop" /\ tried # <<>>) =>
       statusEl = StepReport("imgStep", tried[Len(tried)], result[1].len)

\* C14: in both searches every attempt is reported on the status line
\* before the next attempt begins: each image encode is followed, before the
\* accept test, by a status with its quality and measured size, and each
\* document candidate's quality and measured size are reported before the
\* build of the next candidate starts.
C14_AttemptsReported ==
    /\ [](C14_ImgReportShown)
    /\ [][C14_ImgStepReported /\ C14_PdfCandidateReported]_vars

C14_Witness ==
    /\ Len(tried) >= 2
    /\ Len(built[1]) = 2
    /\ Len(attempts[1]) = 3
    /\ Len(statusLog) = 2
    /\ statusLog[1].text.kind = "pdfAbove"
    /\ statusLog[1].text.pct = 70
    /\ statusLog[1].text.kb = 11
    /\ statusLog[2].text.kind = "pdfAttempt"

\* C15: every delivered file is the product of an attempt of the run that
\* delivers it: a delivery of the image search follows at least one encode
\* and carries a non-empty encoding at a quality the run has tried, a
\* delivery of a document search follows at least one completed build and
\* carries the non-empty bytes of one of the run's builds, and a final
\* report is made only after a quality has been examined.
C15_DeliveredFromAnAttempt ==
    /\ \A i \in 1..Len(Delivered(ImgRun)) :
         LET d == Delivered(ImgRun)[i].data
         IN  /\ tried # <<>>
             /\ result # <<>>
             /\ d.size > 0
             /\ \E j \in 1..Len(tried) : tried[j] = d.q
    /\ imgReport # "none" => (tried # <<>> /\ result # <<>>)
    /\ \A r \in Runs : mode[r] = "target" =>
         /\ \A i \in 1..Len(Delivered(r)) :
              LET d == Delivered(r)[i].data
              IN  /\ built[r] # <<>>
                  /\ d.size > 0
                  /\ \E j \in 1..Len(built[r]) :
                       /\ d.size = built[r][j].size
                       /\ d.q = qualities[built[r][j].cand]
         /\ report[r] # "none" => built[r] # <<>>

C15_Witness ==
    /\ Len(Delivered(ImgRun)) = 1
    /\ Len(tried) >= 2
    /\ Len(Delivered(1)) = 1
    /\ report[1] = "notMet"
    /\ Len(built[1]) = 4

\* a step in which a pending auto-hide timeout fires
C16_TimerStep == timers' = timers - 1

\* a displayed 'processing' message is not hidden by an auto-hide timeout:
\* no timeout was scheduled for it
C16_ProcessingNotHiddenByTimer ==
    (statusEl.cls = "processing" /\ C16_TimerStep) => statusEl' = statusEl

\* C16: a 'processing' message stays on the status line until the running
\* operation or a user action writes the next status; the auto-hide timeout
\* scheduled by an earlier 'success' or 'error' message never hides it.
C16_ProcessingStaysVisible == [][C16_ProcessingNotHiddenByTimer]_vars

====
